---- MODULE Spec2Model ----
(***************************************************************************)
(* Model of EEGLib/EEG.py: the error labelling of trials (identifyErrors), *)
(* the extraction of trial windows (getEEGTrials) and the common average   *)
(* reference filter (CARFilter).                                           *)
(*                                                                         *)
(* Numbers.  Times (seconds), sample positions and sample values are       *)
(* floats in the source.  They are modelled as exact rationals <<n, d>>,   *)
(* d > 0, in lowest terms, so that equality of two values is equality of   *)
(* the pairs.  Sample values are in microvolts (the source holds volts and *)
(* scales the offset by 1e-6).  Sequences are 1-based: the Python index x  *)
(* is x + 1 here.                                                          *)
(***************************************************************************)
EXTENDS Integers, Sequences, FiniteSets

VARIABLES
    gdf,        \* self.__gdf: [data, sfreq, onset], the recording and its annotations
    loaded,     \* the samples of the recording as they were loaded (history)
    mat,        \* self.__mat: [states, actions], the behaviour record
    call,       \* the arguments of the last getEEGTrials call
    exc,        \* the exception the last call raised, "none" when it returned
    volume,     \* the array the caller holds: what getEEGTrials returned
    stacked,    \* per window of the volume: the loop index and the window bounds
    errs,       \* what identifyErrors last returned: [error, time]
    carArg,     \* the value of the caller's array when CARFilter was called (history)
    filtered,   \* what CARFilter last returned
    offsetUsed  \* an earlier call added the visual offset to a window (history)

vars == <<gdf, loaded, mat, call, exc, volume, stacked, errs, carArg, filtered,
          offsetUsed>>

---------------------------------------------------------------------------
(* Rationals *)

Abs(n) == IF n < 0 THEN -n ELSE n

RECURSIVE GCD(_, _)
GCD(a, b) == IF b = 0 THEN a ELSE GCD(b, a % b)

Norm(n, d) == LET g == GCD(Abs(n), d) IN <<n \div g, d \div g>>

R(n) == <<n, 1>>
RAdd(a, b) == Norm(a[1] * b[2] + b[1] * a[2], a[2] * b[2])
RNeg(a) == <<-a[1], a[2]>>
RSub(a, b) == RAdd(a, RNeg(b))
RMul(a, b) == Norm(a[1] * b[1], a[2] * b[2])
RDivInt(a, k) == Norm(a[1], a[2] * k)

\* int(x) of a float: truncation toward zero
RTrunc(a) == IF a[1] >= 0 THEN a[1] \div a[2] ELSE -((-a[1]) \div a[2])

RECURSIVE RSum(_)
RSum(s) == IF s = <<>> THEN R(0) ELSE RAdd(s[1], RSum(Tail(s)))

Min(a, b) == IF a < b THEN a ELSE b
Max(a, b) == IF a > b THEN a ELSE b

---------------------------------------------------------------------------
(* Program constants *)

DefaultFs == 512            \* fs=512 of timeToSample, and the 512 of getEEGTrials
DefaultOffsetValue == 30    \* offset_value=30 of getEEGTrials

NaN == "NaN"                \* np.NaN, the label of a trial that is not evaluable
PyTrue == "True"
PyFalse == "False"

\* a == b of Python on labels: NaN equals nothing, itself included
PyEq(a, b) == a # NaN /\ b # NaN /\ a = b

None == [isNone |-> TRUE, trials |-> <<>>]
Array(t) == [isNone |-> FALSE, trials |-> t]

---------------------------------------------------------------------------
(* timeToSample, timeArrayToSampleArray *)

timeToSample(time, fs) == RMul(time, R(fs))

\* .astype(np.uint) of non-negative floats truncates
timeArrayToSampleArray(time, fs) ==
    [i \in 1..Len(time) |-> RTrunc(timeToSample(time[i], fs))]

---------------------------------------------------------------------------
(* identifyErrors *)

\* s[1:][:-1]
TrimEnds(s) == IF Len(s) <= 2 THEN <<>> ELSE SubSeq(s, 2, Len(s) - 1)

\* states[:, 1:][:, :n] as the sequence of its columns <<intended, actual>>
TruncatedStates(states, n) ==
    LET cols == Len(states[1]) - 1
        k == Min(cols, n)
    IN [i \in 1..Max(k, 0) |-> <<states[1][i + 1], states[2][i + 1]>>]

\* errorLabel with its two tests in the other order
errorLabel_differFirst(col) ==
    IF col[1] # col[2] THEN PyTrue
    ELSE IF col[1] < 0 THEN NaN
    ELSE PyFalse

errorLabel(col) ==
    IF col[1] < 0 THEN NaN
    ELSE IF col[1] # col[2] THEN PyTrue
    ELSE PyFalse

identifyErrors(g, m) ==
    LET annotation_time == TrimEnds(g.onset)
        st == TruncatedStates(m.states, m.actions)
    IN [error |-> [x \in 1..Len(st) |-> errorLabel(st[x])],
        time |-> annotation_time]

---------------------------------------------------------------------------
(* getEEGTrials *)

\* gdf_use.get_data(start=start, stop=stop) on a preloaded recording: stop is
\* cut to n_times, then the samples are data[:, start:stop] with the slice rules
\* of numpy (a negative bound counts from the end); the result is a copy.
get_data(data, start, stop) ==
    LET n == Len(data[1])
        stop1 == Min(stop, n)
        lo == IF start < 0 THEN Max(n + start, 0) ELSE Min(start, n)
        hi == IF stop1 < 0 THEN Max(n + stop1, 0) ELSE stop1
    IN [y \in 1..Len(data) |-> SubSeq(data[y], lo + 1, hi)]

\* for y in range(shape[0]): gdf_subset[y, :] += y*offset_value*1e-6
withOffset(subset, offset_value) ==
    [y \in 1..Len(subset) |->
        [s \in 1..Len(subset[y]) |-> RAdd(subset[y][s], R((y - 1) * offset_value))]]

\* dataAfterOffset had get_data returned a view of the recording: the offset
\* is written to the samples of the window
dataAfterOffset_view(data, start, subset) ==
    [y \in 1..Len(data) |->
        [s \in 1..Len(data[y]) |->
            IF s > start /\ s <= start + Len(subset[y])
            THEN subset[y][s - start]
            ELSE data[y][s]]]

\* The stored recording after the offset was added to gdf_subset: get_data
\* returned a copy, so the addition does not reach the recording.
dataAfterOffset(data, start, subset) == data

\* fullWindow testing only that some samples were retrieved
fullWindow_nonEmpty(subset, pretime_s, posttime_s) == Len(subset[1]) > 0

\* if gdf_subset.shape[1] == (pretime_s*-1 + posttime_s)
fullWindow(subset, pretime_s, posttime_s) ==
    R(Len(subset[1])) = RAdd(RNeg(pretime_s), posttime_s)

\* selected without the comparison with the filter value
selected_notNaN(e, error) == e # NaN

\* the guard of the loop body: if e is not np.NaN: if e == error:
selected(e, error) == e # NaN /\ PyEq(e, error)

\* One pass of the loop "for x in range(time.shape[0])" on the state acc of the
\* call: [exc, arr, stacked, data].
trialStep(acc, x, a, error_array, time, pretime_s, posttime_s) ==
    IF acc.exc # "none" THEN acc
    ELSE IF x > Len(error_array) THEN [acc EXCEPT !.exc = "IndexError"]
    ELSE IF ~selected(error_array[x], a.error) THEN acc
    ELSE
      LET t == time[x]
          start == RTrunc(RAdd(R(t), pretime_s))
          stop == RTrunc(RAdd(R(t), posttime_s))
          gdf_subset == get_data(acc.data, start, stop)
      IN IF ~fullWindow(gdf_subset, pretime_s, posttime_s) THEN acc
         ELSE
           LET vis == a.plot \/ a.offset
               sub == IF vis THEN withOffset(gdf_subset, a.offset_value)
                      ELSE gdf_subset
           IN [exc |-> "none",
               arr |-> Array(Append(acc.arr.trials, sub)),
               stacked |-> Append(acc.stacked,
                                  [x |-> x, start |-> start, stop |-> stop]),
               data |-> IF vis THEN dataAfterOffset(acc.data, start, sub)
                        ELSE acc.data]

\* if plot: slice = gdf_array[plot_trigger, :, :]
plotStep(acc, a) ==
    IF acc.exc # "none" \/ ~a.plot THEN acc
    ELSE IF acc.arr.isNone THEN [acc EXCEPT !.exc = "TypeError"]
    ELSE IF a.plot_trigger >= Len(acc.arr.trials)
         THEN [acc EXCEPT !.exc = "IndexError"]
    ELSE acc

getEEGTrials(g, m, a) ==
    LET pretime_s == RNeg(timeToSample(a.pretime, DefaultFs))
        posttime_s == timeToSample(a.posttime, DefaultFs)
        ident == identifyErrors(g, m)
        time == timeArrayToSampleArray(ident.time, DefaultFs)
        loop[x \in 0..Len(time)] ==
            IF x = 0
            THEN [exc |-> "none", arr |-> None, stacked |-> <<>>, data |-> g.data]
            ELSE trialStep(loop[x - 1], x, a, ident.error, time,
                           pretime_s, posttime_s)
    IN plotStep(loop[Len(time)], a)

---------------------------------------------------------------------------
(* CARFilter *)

\* np.zeros(eegVolume.shape)
zeros(eegVolume) ==
    [tr \in 1..Len(eegVolume) |->
        [y \in 1..Len(eegVolume[tr]) |->
            [s \in 1..Len(eegVolume[tr][y]) |-> R(0)]]]

\* global_avg taking the slice of the first trial for every trial
global_avg_firstTrial(eegVolume, trigger) ==
    LET eeg_slice == eegVolume[1]
    IN [s \in 1..Len(eeg_slice[1]) |->
           RDivInt(RSum([y \in 1..Len(eeg_slice) |-> eeg_slice[y][s]]),
                   Len(eeg_slice))]

\* np.mean(eeg_slice, axis=0) for eeg_slice = eegVolume[trigger, :, :]: per
\* sample point, the mean across the channels of that trial
global_avg(eegVolume, trigger) ==
    LET eeg_slice == eegVolume[trigger]
    IN [s \in 1..Len(eeg_slice[1]) |->
           RDivInt(RSum([y \in 1..Len(eeg_slice) |-> eeg_slice[y][s]]),
                   Len(eeg_slice))]

\* eeg_slice -= global_avg
subtractAvg(eeg_slice, avg) ==
    [y \in 1..Len(eeg_slice) |->
        [s \in 1..Len(eeg_slice[y]) |-> RSub(eeg_slice[y][s], avg[s])]]

\* One pass of "for trigger in range(eegVolume.shape[0])" on [filtered, eegVolume].
\* eeg_slice is a view of eegVolume, so the in-place subtraction writes to the
\* argument as well as to the slice that is stored in filtered.
carStep(acc, trigger) ==
    LET eeg_slice == subtractAvg(acc.eegVolume[trigger],
                                 global_avg(acc.eegVolume, trigger))
    IN [filtered |-> [acc.filtered EXCEPT ![trigger] = eeg_slice],
        eegVolume |-> [acc.eegVolume EXCEPT ![trigger] = eeg_slice]]

\* The returned array (filtered) and the argument as the call leaves it.
CARFilter(eegVolume) ==
    LET loop[trigger \in 0..Len(eegVolume)] ==
            IF trigger = 0
            THEN [filtered |-> zeros(eegVolume), eegVolume |-> eegVolume]
            ELSE carStep(loop[trigger - 1], trigger)
    IN loop[Len(eegVolume)]

---------------------------------------------------------------------------
(* Inputs *)

MaxAnnotations == 5     \* a recording holds at most this many annotations

ToReal(m) == [y \in 1..Len(m) |-> [s \in 1..Len(m[y]) |-> R(m[y][s])]]

\* recordings: samples in microvolts per channel, and the sampling rate
Recordings ==
    { [data |-> ToReal(<< <<1, 4, 2, 7>>,
                          <<2, 1, 5, 0>> >>), sfreq |-> 512],
      [data |-> ToReal(<< <<3, 1, 4, 1, 5, 9, 2>>,
                          <<2, 7, 1, 8, 2, 8, 1>>,
                          <<1, 4, 1, 4, 2, 1, 3>> >>), sfreq |-> 256] }

\* annotation onsets in seconds: k annotations, 3/1024 s apart (one and a half
\* samples at 512 samples per second); the first and the last bound the session
Onsets(k) == [i \in 1..k |-> Norm(3 * (i - 1), 2 * DefaultFs)]
OnsetLists == { Onsets(k) : k \in 2..MaxAnnotations }

\* behaviour records: the 2 x (1 + trials) state matrix (row 1 the intended,
\* row 2 the actual outcome codes) and the length of the action sequence
Behaviours ==
    { [states |-> << <<0, 1, 2, 1>>, <<0, 1, 1, 2>> >>, actions |-> 5],
      [states |-> << <<0, -1, 1>>, <<0, 1, 1>> >>, actions |-> 2],
      [states |-> << <<0, 1, 1>>, <<0, 2, 1>> >>, actions |-> 2],
      [states |-> << <<0, 1, -1, 2>>, <<0, 2, -1, 1>> >>, actions |-> 2],
      [states |-> << <<0, 2, -1, 2>>, <<0, 1, 1, 1>> >>, actions |-> 3],
      [states |-> << <<0, 1, 1, 2>>, <<0, 1, 1, 2>> >>, actions |-> 3],
      [states |-> << <<0, 1>>, <<0, 2>> >>, actions |-> 1],
      [states |-> << <<0>>, <<0>> >>, actions |-> 0] }

Ticks(k) == Norm(k, 2 * DefaultFs)

Flags ==
    { [offset |-> FALSE, plot |-> FALSE, plot_trigger |-> 0],
      [offset |-> TRUE, plot |-> FALSE, plot_trigger |-> 0],
      [offset |-> FALSE, plot |-> TRUE, plot_trigger |-> 0] }

CallOf(pre, post, e, f) ==
    [made |-> TRUE, pretime |-> Ticks(pre), posttime |-> Ticks(post),
     error |-> e, offset |-> f.offset, offset_value |-> DefaultOffsetValue,
     plot |-> f.plot, plot_trigger |-> f.plot_trigger]

\* the calls made: durations of 1, 2 and 4 (3 and 4) half sample periods, both
\* filter values and each flag; then NaN as the filter value, and a plot of the
\* second trial
Calls ==
    { CallOf(pre, post, e, f) :
        pre \in {1, 2, 4}, post \in {3, 4}, e \in {PyTrue, PyFalse}, f \in Flags }
    \cup { CallOf(2, 4, NaN, f) : f \in Flags }
    \cup { CallOf(2, 4, e, [offset |-> FALSE, plot |-> TRUE, plot_trigger |-> 1]) :
             e \in {PyTrue, PyFalse} }

NoCall ==
    [made |-> FALSE, pretime |-> R(2), posttime |-> R(4), error |-> PyTrue,
     offset |-> FALSE, offset_value |-> DefaultOffsetValue, plot |-> FALSE,
     plot_trigger |-> 0]

NoErrs == [called |-> FALSE, error |-> <<>>, time |-> <<>>]

---------------------------------------------------------------------------
(* The state machine *)

Init ==
    /\ \E r \in Recordings, o \in OnsetLists :
          /\ gdf = [data |-> r.data, sfreq |-> r.sfreq, onset |-> o]
          /\ loaded = r.data
    /\ mat \in Behaviours
    /\ call = NoCall
    /\ exc = "none"
    /\ volume = None
    /\ stacked = <<>>
    /\ errs = NoErrs
    /\ carArg = None
    /\ filtered = None
    /\ offsetUsed = FALSE

IdentifyErrors ==
    /\ LET r == identifyErrors(gdf, mat)
       IN errs' = [called |-> TRUE, error |-> r.error, time |-> r.time]
    /\ UNCHANGED <<gdf, loaded, mat, call, exc, volume, stacked, carArg, filtered,
                   offsetUsed>>

GetEEGTrials ==
    \E a \in Calls :
        LET r == getEEGTrials(gdf, mat, a)
            ident == identifyErrors(gdf, mat)
        IN /\ call' = a
           /\ exc' = r.exc
           /\ volume' = IF r.exc = "none" THEN r.arr ELSE None
           /\ stacked' = IF r.exc = "none" THEN r.stacked ELSE <<>>
           /\ gdf' = [gdf EXCEPT !.data = r.data]
           /\ errs' = [called |-> TRUE, error |-> ident.error, time |-> ident.time]
           /\ carArg' = None
           /\ filtered' = None
           /\ offsetUsed' = (offsetUsed \/ ((a.offset \/ a.plot) /\ r.stacked # <<>>))
           /\ UNCHANGED <<loaded, mat>>

CARFilterCall ==
    /\ exc = "none"
    /\ ~volume.isNone
    /\ LET r == CARFilter(volume.trials)
       IN /\ carArg' = volume
          /\ volume' = Array(r.eegVolume)
          /\ filtered' = Array(r.filtered)
    /\ UNCHANGED <<gdf, loaded, mat, call, exc, stacked, errs, offsetUsed>>

Next == IdentifyErrors \/ GetEEGTrials \/ CARFilterCall

Spec == Init /\ [][Next]_vars

---------------------------------------------------------------------------
(* What the properties below speak of *)

NTimes == Len(loaded[1])
NChannels == Len(loaded)

\* the label of trial x equals the filter value of the last call
Matching(x) ==
    /\ x <= Len(errs.error)
    /\ errs.error[x] # NaN
    /\ errs.error[x] = call.error

\* the window of trial x in samples, at the rate fs
OnsetSample(x, fs) == RTrunc(RMul(errs.time[x], R(fs)))
WinStart(x, fs) == RTrunc(RSub(R(OnsetSample(x, fs)), RMul(call.pretime, R(fs))))
WinStop(x, fs) == RTrunc(RAdd(R(OnsetSample(x, fs)), RMul(call.posttime, R(fs))))
WinLen(fs) == RMul(RAdd(call.pretime, call.posttime), R(fs))

InBounds(x) ==
    /\ 0 <= WinStart(x, DefaultFs)
    /\ WinStop(x, DefaultFs) <= NTimes
    /\ R(WinStop(x, DefaultFs) - WinStart(x, DefaultFs)) = WinLen(DefaultFs)

\* a matching trial whose window starts in the recording and runs past its end
PastEnd(x) ==
    /\ Matching(x)
    /\ 0 <= WinStart(x, DefaultFs)
    /\ WinStart(x, DefaultFs) < NTimes
    /\ WinStop(x, DefaultFs) > NTimes
    /\ R(WinStop(x, DefaultFs) - WinStart(x, DefaultFs)) = WinLen(DefaultFs)

Trials == 1..Len(errs.time)
Survivors == { x \in Trials : Matching(x) /\ InBounds(x) }
StackedTrials == { stacked[k].x : k \in 1..Len(stacked) }

Returned == call.made /\ exc = "none"
\* the label sequence covers every onset, so that the loop indexes no label
\* that does not exist
Labelled == Len(errs.error) >= Len(errs.time)

---------------------------------------------------------------------------
(* C1: identifyErrors gives every trial column i of the truncated state     *)
(* matrix exactly one of True, False, Undefined (NaN): NaN if and only if   *)
(* the intended code states[0,i] is negative; otherwise True if and only if *)
(* the intended code differs from the actual code states[1,i], else False.  *)
C1_Labels ==
    errs.called =>
        /\ Len(errs.error) = Max(0, Min(Len(mat.states[1]) - 1, mat.actions))
        /\ \A i \in 1..Len(errs.error) :
              LET intended == mat.states[1][i + 1]
                  actual == mat.states[2][i + 1]
                  l == errs.error[i]
              IN /\ l \in {PyTrue, PyFalse, NaN}
                 /\ (l = NaN) <=> (intended < 0)
                 /\ intended >= 0 => ((l = PyTrue) <=> (intended # actual))
                 /\ (intended >= 0 /\ intended = actual) => l = PyFalse

\* labels were computed for a truncated matrix that holds a negative intended
\* code equal to the actual code, and an error
C1_Witness ==
    /\ errs.called
    /\ Len(errs.error) < Len(mat.states[1]) - 1
    /\ \E i \in 1..Len(errs.error) :
          /\ mat.states[1][i + 1] < 0
          /\ mat.states[1][i + 1] = mat.states[2][i + 1]
          /\ errs.error[i] = NaN
    /\ \E i \in 1..Len(errs.error) : errs.error[i] = PyTrue

(* C2: identifyErrors returns a label sequence and an onset sequence of the *)
(* same length, one entry per usable trial.                                 *)
C2_Parallel == errs.called => Len(errs.error) = Len(errs.time)

(* C3: every trial of the returned volume has the shape (channel count,     *)
(* pre samples + post samples); half a second before and one second after   *)
(* the onset are 768 samples at 512 samples per second.                     *)
C3_Shape ==
    /\ RAdd(timeToSample(<<1, 2>>, DefaultFs), timeToSample(R(1), DefaultFs)) = R(768)
    /\ Returned =>
          \A k \in 1..Len(volume.trials) :
              /\ Len(volume.trials[k]) = NChannels
              /\ \A y \in 1..NChannels :
                    R(Len(volume.trials[k][y])) = WinLen(DefaultFs)

\* a volume was returned from which a matching trial was left out, because its
\* window ran past the end of the recording, while another one was stacked
C3_Witness ==
    /\ Returned
    /\ Len(volume.trials) >= 1
    /\ \E x \in Trials : PastEnd(x) /\ x \notin StackedTrials

(* C4: the volume holds a window only for trials whose label equals the     *)
(* filter value, in the order of the label sequence; a trial labelled NaN   *)
(* or with the opposite label is never included.                            *)
C4_Filtered ==
    Returned =>
        /\ Len(volume.trials) = Len(stacked)
        /\ \A k \in 1..Len(stacked) :
              /\ stacked[k].x \in 1..Len(errs.error)
              /\ errs.error[stacked[k].x] # NaN
              /\ errs.error[stacked[k].x] = call.error
        /\ \A j, k \in 1..Len(stacked) : j < k => stacked[j].x < stacked[k].x

\* two windows were stacked, and a trial between them was skipped
C4_Witness ==
    /\ Returned
    /\ Len(stacked) >= 2
    /\ \E x \in Trials :
          /\ stacked[1].x < x
          /\ x < stacked[2].x
          /\ errs.error[x] = NaN

(* C5: when the window of a matching trial runs past the end of the         *)
(* recording, getEEGTrials raises nothing and leaves out exactly that       *)
(* trial: the other trials are returned as they would be.                   *)
C5_PastEndDropped ==
    (call.made /\ Labelled /\ \E x \in Trials : PastEnd(x)) =>
        /\ exc = "none"
        /\ StackedTrials = Survivors
        /\ Len(volume.trials) = Cardinality(Survivors)

(* C6: when no trial survives, getEEGTrials raises nothing, whatever its    *)
(* flags, and returns the empty (None) volume.                              *)
C6_EmptyReturned ==
    (call.made /\ Labelled /\ Survivors = {}) =>
        /\ exc = "none"
        /\ volume.isNone

(* C7: CARFilter returns a new volume of the shape of its argument and      *)
(* leaves the argument's values unchanged.                                  *)
C7_Pure ==
    ~filtered.isNone =>
        /\ volume = carArg
        /\ Len(filtered.trials) = Len(carArg.trials)
        /\ \A tr \in 1..Len(filtered.trials) :
              /\ Len(filtered.trials[tr]) = Len(carArg.trials[tr])
              /\ \A y \in 1..Len(filtered.trials[tr]) :
                    Len(filtered.trials[tr][y]) = Len(carArg.trials[tr][y])

(* C8: with offset and plot unset every returned window equals the samples  *)
(* of the recording over that window, and no call, a call after one with    *)
(* the offset set included, alters the stored samples of the recording.     *)
C8_NoOffsetLeak ==
    /\ gdf.data = loaded
    /\ (Returned /\ ~call.offset /\ ~call.plot /\ carArg.isNone) =>
          \A k \in 1..Len(stacked) :
              \A y \in 1..NChannels :
                  \A s \in 1..(stacked[k].stop - stacked[k].start) :
                      volume.trials[k][y][s] = loaded[y][stacked[k].start + s]

\* a call with the flags unset returned windows after an earlier call had
\* added the offset to a window
C8_Witness ==
    /\ offsetUsed
    /\ Returned
    /\ ~call.offset
    /\ ~call.plot
    /\ carArg.isNone
    /\ Len(stacked) >= 1

(* C9: in the volume CARFilter returns, the filtered values of every trial  *)
(* at every sample point have mean zero across the channels: each value is  *)
(* the input value minus the mean across the channels of that trial at that *)
(* sample point.                                                            *)
C9_ZeroMean ==
    ~filtered.isNone =>
        \A tr \in 1..Len(filtered.trials) :
            LET out == filtered.trials[tr]
                in == carArg.trials[tr]
                n == Len(in)
            IN \A s \in 1..Len(out[1]) :
                  /\ RSum([y \in 1..Len(out) |-> out[y][s]]) = R(0)
                  /\ \A y \in 1..Len(out) :
                        RMul(R(n), out[y][s]) =
                            RSub(RMul(R(n), in[y][s]),
                                 RSum([z \in 1..n |-> in[z][s]]))

\* a volume of trials that differ in their mean across the channels was
\* filtered, and the filter changed it
C9_Witness ==
    /\ ~filtered.isNone
    /\ Len(filtered.trials) >= 2
    /\ filtered # carArg
    /\ \E s \in 1..Len(carArg.trials[1][1]) :
          RSum([y \in 1..Len(carArg.trials[1]) |-> carArg.trials[1][y][s]])
              # RSum([y \in 1..Len(carArg.trials[2]) |-> carArg.trials[2][y][s]])

(* C10: getEEGTrials converts the durations and the onsets to samples at    *)
(* the sampling rate of the recording: the window of a trial with onset t   *)
(* is [t*fs - pre*fs, t*fs + post*fs), of length (pre + post)*fs.           *)
C10_OwnRate ==
    Returned =>
        \A k \in 1..Len(stacked) :
            /\ stacked[k].start = WinStart(stacked[k].x, gdf.sfreq)
            /\ stacked[k].stop = WinStop(stacked[k].x, gdf.sfreq)
            /\ R(Len(volume.trials[k][1])) = WinLen(gdf.sfreq)

====
